---- MODULE Spec2Model ----
(***************************************************************************)
(* Model of vtoolbox/mdof.py: eigen (the eigenpair sorter),                *)
(* modes_system_undamped (the modal decomposer) and                        *)
(* response_system_undamped (the state propagator).                        *)
(*                                                                         *)
(* Conventions.  A matrix is a sequence of rows, each row a sequence.      *)
(* A complex number is a pair <<re, im>> of integers.  Index arrays        *)
(* (idxp, idxn, idx) hold numpy's 0-based indices.  A rational matrix is a *)
(* record [num |-> integer matrix, den |-> positive integer].              *)
(***************************************************************************)
EXTENDS Integers, Sequences, FiniteSets, TLC

\* ---------------------------------------------------------------- bounds
\* largest matrix dimension handed to eigen
MaxN == 3
\* real parts of the eigenvalues range over -1 .. MaxRe
MaxRe == 2
\* free response: max_time ranges over 1 .. MaxTicks ticks
MaxTicks == 16
\* free response: a tick is 1 / (Rate * TicksPerSample) time units
TicksPerSample == 4
\* free response: number of coordinates n = len(M) ranges over 1 .. MaxDof
MaxDof == 1
\* free response: entries of x0 and v0 range over 0 .. MaxAmp
MaxAmp == 1

\* modes: the matrix dimension n ranges over 1 .. MaxModesDim
MaxModesDim == 2
\* modes: diagonal entries of the Cholesky factor of M range over 1 .. MaxDiag
MaxDiag == 2
\* modes: eigenvalues of the whitened matrix range over 0 .. MaxLam
MaxLam == 2

\* ------------------------------------------------------ program constants
\* samples per unit time, line 151
Rate == 250

VARIABLES
    pc,        \* position inside the call being modelled
    A,         \* eigen: the matrix argument
    evalues,   \* eigen: raw eigenvalues from la.eig
    evectors,  \* eigen: raw eigenvector matrix from la.eig
    idxp,      \* eigen: indices of the "positive" block
    idxn,      \* eigen: indices of the "negative" block
    idx,       \* eigen: hstack([idxp, idxn])
    outVals,   \* eigen: evalues[idx]
    outVecs,   \* eigen: evectors[:, idx]
    M,         \* modes, response: mass matrix
    K,         \* modes, response: stiffness matrix
    x0,        \* response: initial displacement
    v0,        \* response: initial velocity
    max_time,  \* response: end time, a rational [num, den]
    t,         \* response: the time grid, a sequence of rationals
    dt,        \* response: t[1] - t[0]
    Astate,    \* response: the state matrix A
    X,         \* response: the trajectory, 2n rows, len(t) columns
    Ad,        \* response: la.expm(A * dt)
    iter,      \* response: loop variable i of line 169
    writeLog,  \* response: the column indices assigned to X, in order
    applied,   \* response: how many times Ad @ X[:, i] was evaluated
    L,         \* modes: la.cholesky(M)
    Linv,      \* modes: la.inv(L), a rational matrix
    W,         \* modes: Linv @ K @ Linv.T, the matrix handed to eigen
    lam,       \* modes: sorted eigenvalues returned by eigen
    P,         \* modes: sorted eigenvectors returned by eigen
    S,         \* modes: mode shapes, a rational matrix
    Sinv       \* modes: modal transformation, a rational matrix

eigenVars == <<A, evalues, evectors, idxp, idxn, idx, outVals, outVecs>>

modesVars == <<L, Linv, W, lam, P, S, Sinv>>

respVars == <<M, K, x0, v0, max_time, t, dt, Astate, X, Ad, iter, writeLog, applied>>

\* ------------------------------------------------------- array helpers
Re(z) == z[1]
Im(z) == z[2]

\* numpy a[i] with a 0-based index
At(a, i) == a[i + 1]

\* numpy a[index_array]
Take(a, ix) == [j \in 1..Len(ix) |-> At(a, ix[j])]

\* numpy m[:, index_array]
TakeCols(m, ix) == [i \in 1..Len(m) |-> [j \in 1..Len(ix) |-> At(m[i], ix[j])]]

Column(m, j) == [i \in 1..Len(m) |-> m[i][j]]

NumCols(m) == IF Len(m) = 0 THEN 0 ELSE Len(m[1])

\* Python a[k:] for k >= 0
SliceFrom(a, k) ==
    LET start == IF k > Len(a) THEN Len(a) ELSE k
    IN  SubSeq(a, start + 1, Len(a))

\* Python a[k::-1]: a negative k counts from the end, the start is clamped
\* into -1 .. len-1, and the slice runs from it down to index 0
SliceDownFrom(a, k) ==
    LET wrapped == IF k < 0 THEN k + Len(a) ELSE k
        start   == IF wrapped < 0 THEN -1
                   ELSE IF wrapped >= Len(a) THEN Len(a) - 1
                   ELSE wrapped
    IN  [j \in 1..(start + 1) |-> At(a, start + 1 - j)]

\* sp.hstack of two index arrays
HStack(a, b) == a \o b

\* int(len(evalues)/2)
Half(a) == Len(a) \div 2

\* evalues.real, evalues.imag
RealParts(ev) == [i \in 1..Len(ev) |-> Re(ev[i])]
ImagParts(ev) == [i \in 1..Len(ev) |-> Im(ev[i])]

\* the indices in non-increasing order of the keys
ArgsortDescending(keys) ==
    LET n == Len(keys)
    IN  { r \in [1..n -> 0..(n - 1)] :
            /\ \A i, j \in 1..n : i # j => r[i] # r[j]
            /\ \A i \in 1..n : \A j \in 1..n :
                   i < j => At(keys, r[i]) >= At(keys, r[j]) }

\* The results numpy's argsort may return for keys: every arrangement of the
\* indices 0..n-1 that lists the keys in non-decreasing order (the default
\* sort kind does not fix the order of equal keys).
Argsort(keys) ==
    LET n == Len(keys)
    IN  { r \in [1..n -> 0..(n - 1)] :
            /\ \A i, j \in 1..n : i # j => r[i] # r[j]
            /\ \A i \in 1..n : \A j \in 1..n :
                   i < j => At(keys, r[i]) <= At(keys, r[j]) }

\* ----------------------------------------------------------- la.eig
\* la.eig on a diagonal matrix: the eigenvalues are the diagonal entries in
\* diagonal order and the eigenvector matrix is the identity.  The diagonal
\* ranges over every sequence of complex values, so every raw spectrum in
\* every arrangement is returned by some call.
Diag(d) == [i \in 1..Len(d) |-> [j \in 1..Len(d) |-> IF i = j THEN d[i] ELSE <<0, 0>>]]

Identity(n) == [i \in 1..n |-> [j \in 1..n |-> IF i = j THEN 1 ELSE 0]]

EigValues(a) == [i \in 1..Len(a) |-> a[i][i]]

EigVectors(a) == Identity(Len(a))

\* ------------------------------------------------------ eigen, by branch
AllImagZero(ev) == \A i \in 1..Len(ev) : Im(ev[i]) = 0

AllRealPositive(ev) == \A i \in 1..Len(ev) : Re(ev[i]) > 0

\* line 52 / 56
UpperBlock(r) == SliceFrom(r, Half(r))

\* line 53 / 57
LowerBlock(r) == SliceDownFrom(r, Half(r) - 1)

\* the key eigen ranks by: real part when the spectrum is real, else imaginary
SortKeys(ev) == IF AllImagZero(ev) THEN RealParts(ev) ELSE ImagParts(ev)

\* lines 47-59 for one argsort result r
IndexFor(ev, r) ==
    IF AllImagZero(ev) /\ AllRealPositive(ev)
    THEN HStack(r, <<>>)
    ELSE HStack(UpperBlock(r), LowerBlock(r))

\* line 61: the same index array selects the eigenvalues and the columns
SelectVals(ev, ix) == Take(ev, ix)

\* the columns in raw order, cut or padded to the length of ix
SelectVecsUnpermuted(vecs, ix) ==
    TakeCols(vecs, [j \in 1..Len(ix) |-> IF j <= NumCols(vecs) THEN j - 1 ELSE 0])

SelectVecs(vecs, ix) == TakeCols(vecs, ix)

\* --------------------------------------------------------- eigen: steps
ReVals == (-1)..MaxRe
ImVals == {-1, 0, 1}
Complex == ReVals \X ImVals

Spectra == UNION { [1..n -> Complex] : n \in 1..MaxN }

InitEigen ==
    /\ pc = "eig"
    /\ \E d \in Spectra : A = Diag(d)
    /\ evalues = <<>>
    /\ evectors = <<>>
    /\ idxp = <<>>
    /\ idxn = <<>>
    /\ idx = <<>>
    /\ outVals = <<>>
    /\ outVecs = <<>>

IdleEigen ==
    /\ A = <<>>
    /\ evalues = <<>>
    /\ evectors = <<>>
    /\ idxp = <<>>
    /\ idxn = <<>>
    /\ idx = <<>>
    /\ outVals = <<>>
    /\ outVecs = <<>>

IdleModes ==
    /\ L = <<>>
    /\ Linv = <<>>
    /\ W = <<>>
    /\ lam = <<>>
    /\ P = <<>>
    /\ S = <<>>
    /\ Sinv = <<>>

IdleResponse ==
    /\ M = <<>>
    /\ K = <<>>
    /\ x0 = <<>>
    /\ v0 = <<>>
    /\ max_time = <<>>
    /\ t = <<>>
    /\ dt = <<>>
    /\ Astate = <<>>
    /\ X = <<>>
    /\ Ad = <<>>
    /\ iter = 0
    /\ writeLog = <<>>
    /\ applied = 0

\* lines 42-45
Solve ==
    /\ pc = "eig"
    /\ evalues' = EigValues(A)
    /\ evectors' = EigVectors(A)
    /\ pc' = "branch"
    /\ UNCHANGED <<A, idxp, idxn, idx, outVals, outVecs>>
    /\ UNCHANGED respVars
    /\ UNCHANGED modesVars

\* lines 47-50
Case1a ==
    /\ pc = "branch"
    /\ AllImagZero(evalues)
    /\ AllRealPositive(evalues)
    /\ \E r \in Argsort(RealParts(evalues)) :
          /\ idxp' = r
          /\ idxn' = <<>>
    /\ pc' = "stack"
    /\ UNCHANGED <<A, evalues, evectors, idx, outVals, outVecs>>
    /\ UNCHANGED respVars
    /\ UNCHANGED modesVars

\* lines 51-53
Case1b ==
    /\ pc = "branch"
    /\ AllImagZero(evalues)
    /\ ~AllRealPositive(evalues)
    /\ \E r \in Argsort(RealParts(evalues)) :
          /\ idxp' = UpperBlock(r)
          /\ idxn' = LowerBlock(r)
    /\ pc' = "stack"
    /\ UNCHANGED <<A, evalues, evectors, idx, outVals, outVecs>>
    /\ UNCHANGED respVars
    /\ UNCHANGED modesVars

\* lines 55-57
Case2 ==
    /\ pc = "branch"
    /\ ~AllImagZero(evalues)
    /\ \E r \in Argsort(ImagParts(evalues)) :
          /\ idxp' = UpperBlock(r)
          /\ idxn' = LowerBlock(r)
    /\ pc' = "stack"
    /\ UNCHANGED <<A, evalues, evectors, idx, outVals, outVecs>>
    /\ UNCHANGED respVars
    /\ UNCHANGED modesVars

\* lines 59-61
Gather ==
    /\ pc = "stack"
    /\ idx' = HStack(idxp, idxn)
    /\ outVals' = SelectVals(evalues, HStack(idxp, idxn))
    /\ outVecs' = SelectVecs(evectors, HStack(idxp, idxn))
    /\ pc' = "done"
    /\ UNCHANGED <<A, evalues, evectors, idxp, idxn>>
    /\ UNCHANGED respVars
    /\ UNCHANGED modesVars

\* ------------------------------------------------- eigen: properties
Dim == Len(A)

\* A * v for a complex matrix and an integer vector, one row: sum over the
\* first k columns
RECURSIVE RowDot(_, _, _)
RowDot(row, v, k) ==
    IF k = 0 THEN <<0, 0>>
    ELSE LET s == RowDot(row, v, k - 1)
         IN  <<Re(s) + Re(row[k]) * v[k], Im(s) + Im(row[k]) * v[k]>>

\* v is an eigenvector of a for the eigenvalue ew: v # 0 and a v = ew v
IsEigenpair(a, ew, v) ==
    /\ Len(v) = Len(a)
    /\ \E i \in 1..Len(v) : v[i] # 0
    /\ \A i \in 1..Len(a) :
          RowDot(a[i], v, Len(v)) = <<Re(ew) * v[i], Im(ew) * v[i]>>

IsPermutationOfIndices(ix, n) ==
    /\ Len(ix) = n
    /\ \A k \in 0..(n - 1) : Cardinality({j \in 1..Len(ix) : ix[j] = k}) = 1

SplitCase == ~(AllImagZero(evalues) /\ AllRealPositive(evalues))

\* C1: when eigen returns, idx is a permutation of 0..n-1 and the output has
\* exactly n eigenvalues and n eigenvector columns (nothing dropped, nothing
\* twice), for every n >= 1 and every raw spectrum.
C1_IndexIsPermutation ==
    pc = "done" =>
        /\ IsPermutationOfIndices(idx, Dim)
        /\ Len(outVals) = Dim
        /\ NumCols(outVecs) = Dim

\* C2: in the split cases the output index is r[h], ..., r[n-1] followed by
\* r[h-1], ..., r[0], for r an ascending ranking by the key and h = n div 2;
\* for odd n the positive block is one longer than the negative block.
C2_SplitBlocks ==
    (pc = "done" /\ SplitCase) =>
        LET n == Dim
            h == n \div 2
        IN  /\ \E r \in Argsort(SortKeys(evalues)) :
                  idx = [j \in 1..(n - h) |-> At(r, h + j - 1)]
                        \o [j \in 1..h |-> At(r, h - j)]
            /\ (n % 2 = 1) => Len(idxp) = Len(idxn) + 1

PositiveRealCase == AllImagZero(evalues) /\ AllRealPositive(evalues)

\* C3 as stated: a real, strictly positive spectrum comes back in strictly
\* ascending order of real part, with an empty negative block.
C3_StrictlyAscending ==
    (pc = "done" /\ PositiveRealCase) =>
        /\ idxn = <<>>
        /\ \A i \in 1..(Len(outVals) - 1) : Re(outVals[i]) < Re(outVals[i + 1])

\* C3 as amended: a real, strictly positive spectrum comes back whole, with
\* an empty negative block, in non-decreasing order of real part, and the
\* order is strictly ascending when the eigenvalues are pairwise distinct.
C3_Ascending ==
    (pc = "done" /\ PositiveRealCase) =>
        /\ idxn = <<>>
        /\ Len(outVals) = Dim
        /\ \A i \in 1..(Len(outVals) - 1) : Re(outVals[i]) <= Re(outVals[i + 1])
        /\ (\A i, j \in 1..Dim : i # j => evalues[i] # evalues[j])
              => \A i \in 1..(Len(outVals) - 1) : Re(outVals[i]) < Re(outVals[i + 1])

\* C3 witness: a positive real spectrum with a repeated eigenvalue that the
\* solver returned out of order, sorted
C3_Witness ==
    /\ pc = "done"
    /\ PositiveRealCase
    /\ Dim >= 2
    /\ outVals # evalues
    /\ \E i, j \in 1..Dim : i # j /\ evalues[i] = evalues[j]

\* C4: in every branch, output position i holds an eigenvalue and an
\* eigenvector column taken from one and the same raw index, so column i is
\* an eigenvector of A for eigenvalue i.
C4_CoPermuted ==
    pc = "done" =>
        /\ NumCols(outVecs) = Len(outVals)
        /\ \A i \in 1..Len(outVals) :
              /\ \E j \in 1..Dim :
                    /\ outVals[i] = evalues[j]
                    /\ Column(outVecs, i) = Column(evectors, j)
              /\ IsEigenpair(A, outVals[i], Column(outVecs, i))

\* C4 witness: a split-case output of three distinct eigenvalues whose order
\* differs from the raw order
C4_Witness ==
    /\ pc = "done"
    /\ Dim >= 3
    /\ SplitCase
    /\ outVals # evalues
    /\ \A i, j \in 1..Dim : i # j => evalues[i] # evalues[j]

\* ---------------------------------------------------- integer matrices
RECURSIVE SumTo(_, _)
SumTo(f, k) == IF k = 0 THEN 0 ELSE SumTo(f, k - 1) + f[k]

Dot(u, v) == SumTo([k \in 1..Len(u) |-> u[k] * v[k]], Len(u))

\* m @ v
MatVec(m, v) == [r \in 1..Len(m) |-> Dot(m[r], v)]

\* a @ b
MatMul(a, b) == [r \in 1..Len(a) |-> [c \in 1..NumCols(b) |-> Dot(a[r], Column(b, c))]]

\* m.T
Transpose(m) == [c \in 1..NumCols(m) |-> Column(m, c)]

\* -m
Negate(m) == [r \in 1..Len(m) |-> [c \in 1..Len(m[r]) |-> 0 - m[r][c]]]

\* sp.zeros((rows, cols))
Zeros(rows, cols) == [r \in 1..rows |-> [c \in 1..cols |-> 0]]

\* sp.hstack / sp.vstack of matrices
HStackM(a, b) == [r \in 1..Len(a) |-> a[r] \o b[r]]
VStackM(a, b) == a \o b

DiagInt(d) == [r \in 1..Len(d) |-> [c \in 1..Len(d) |-> IF r = c THEN d[r] ELSE 0]]

\* ------------------------------------------- response_system_undamped
\* int(250 * max_time): Python's int() truncates, and max_time > 0
SampleCountRounded(mt) == (2 * Rate * mt.num + mt.den) \div (2 * mt.den)

SampleCount(mt) == (Rate * mt.num) \div mt.den

\* sp.linspace(0, stop, count): no sample for count = 0, the single sample 0
\* for count = 1, else count samples k * stop / (count - 1), k = 0..count-1
Linspace(stop, count) ==
    IF count = 0 THEN <<>>
    ELSE IF count = 1 THEN <<[num |-> 0, den |-> 1]>>
    ELSE [k \in 1..count |-> [num |-> (k - 1) * stop.num, den |-> stop.den * (count - 1)]]

\* a - b on rationals
RatSub(a, b) == [num |-> a.num * b.den - b.num * a.den, den |-> a.den * b.den]

\* la.pinv on a diagonal matrix: the reciprocal of every nonzero diagonal
\* entry, zero elsewhere (the model's mass matrices have entries 0 and 1)
PInv(m) ==
    [r \in 1..Len(m) |-> [c \in 1..Len(m) |->
        IF r = c /\ m[r][r] # 0 THEN 1 \div m[r][r] ELSE 0]]

\* lines 156-161
StateMatrix(m, k) ==
    LET n == Len(m)
    IN  VStackM(HStackM(Zeros(n, n), Identity(n)),
                HStackM(MatMul(Negate(PInv(m)), k), Zeros(n, n)))

\* X[:, c] = v with a 0-based column index
SetColumn(x, c, v) == [r \in 1..Len(x) |-> [x[r] EXCEPT ![c + 1] = v[r]]]

\* la.expm(A * dt) is a library result; it is taken from a bounded family of
\* 2n x 2n integer matrices [[a I, b I], [c I, a I]] that holds the identity,
\* a rotation, a shear and a growing map
ExpmResults(n) ==
    { VStackM(HStackM(DiagInt([k \in 1..n |-> a]), DiagInt([k \in 1..n |-> b])),
              HStackM(DiagInt([k \in 1..n |-> c]), DiagInt([k \in 1..n |-> a]))) :
        a \in {0, 1}, b \in {0, 1}, c \in {-1, 0} }

\* range(len(t) - 1)
LoopCountShort(grid) == Len(grid) - 2

LoopCount(grid) == Len(grid) - 1

DiagMatrices(n, vals) == { DiagInt(d) : d \in [1..n -> vals] }

InitResponse ==
    /\ pc = "grid"
    /\ \E n \in 1..MaxDof :
          /\ M \in DiagMatrices(n, {0, 1})
          /\ K \in DiagMatrices(n, {0, 1})
          /\ x0 \in [1..n -> 0..MaxAmp]
          /\ v0 \in [1..n -> 0..MaxAmp]
    /\ \E ticks \in 1..MaxTicks :
          max_time = [num |-> ticks, den |-> Rate * TicksPerSample]
    /\ t = <<>>
    /\ dt = <<>>
    /\ Astate = <<>>
    /\ X = <<>>
    /\ Ad = <<>>
    /\ iter = 0
    /\ writeLog = <<>>
    /\ applied = 0

\* line 151
Grid ==
    /\ pc = "grid"
    /\ t' = Linspace(max_time, SampleCount(max_time))
    /\ pc' = "step"
    /\ UNCHANGED <<M, K, x0, v0, max_time, dt, Astate, X, Ad, iter, writeLog, applied>>
    /\ UNCHANGED eigenVars
    /\ UNCHANGED modesVars

\* line 152
StepSize ==
    /\ pc = "step"
    /\ Len(t) >= 2
    /\ dt' = RatSub(At(t, 1), At(t, 0))
    /\ pc' = "build"
    /\ UNCHANGED <<M, K, x0, v0, max_time, t, Astate, X, Ad, iter, writeLog, applied>>
    /\ UNCHANGED eigenVars
    /\ UNCHANGED modesVars

\* line 152 on a grid of fewer than two samples: t[1] raises IndexError
StepSizeFails ==
    /\ pc = "step"
    /\ Len(t) < 2
    /\ pc' = "IndexError"
    /\ UNCHANGED respVars
    /\ UNCHANGED eigenVars
    /\ UNCHANGED modesVars

\* lines 154-166
Build ==
    /\ pc = "build"
    /\ Astate' = StateMatrix(M, K)
    /\ X' = SetColumn(Zeros(2 * Len(M), Len(t)), 0, x0 \o v0)
    /\ writeLog' = Append(writeLog, 0)
    /\ pc' = "expm"
    /\ UNCHANGED <<M, K, x0, v0, max_time, t, dt, Ad, iter, applied>>
    /\ UNCHANGED eigenVars
    /\ UNCHANGED modesVars

\* line 168
Discretize ==
    /\ pc = "expm"
    /\ Ad' \in ExpmResults(Len(M))
    /\ iter' = 0
    /\ pc' = "loop"
    /\ UNCHANGED <<M, K, x0, v0, max_time, t, dt, Astate, X, writeLog, applied>>
    /\ UNCHANGED eigenVars
    /\ UNCHANGED modesVars

\* lines 169-170, one iteration
Iterate ==
    /\ pc = "loop"
    /\ iter < LoopCount(t)
    /\ X' = SetColumn(X, iter + 1, MatVec(Ad, Column(X, iter + 1)))
    /\ writeLog' = Append(writeLog, iter + 1)
    /\ applied' = applied + 1
    /\ iter' = iter + 1
    /\ UNCHANGED <<pc, M, K, x0, v0, max_time, t, dt, Astate, Ad>>
    /\ UNCHANGED eigenVars
    /\ UNCHANGED modesVars

\* line 172
Return ==
    /\ pc = "loop"
    /\ iter >= LoopCount(t)
    /\ pc' = "returned"
    /\ UNCHANGED respVars
    /\ UNCHANGED eigenVars
    /\ UNCHANGED modesVars

\* ---------------------------------------------- response: properties
\* Ad^k v
RECURSIVE PowerApply(_, _, _)
PowerApply(ad, k, v) == IF k = 0 THEN v ELSE MatVec(ad, PowerApply(ad, k - 1, v))

\* round(250 * max_time), to nearest, a half rounding to the even neighbour
RoundedCount(mt) ==
    LET whole == (Rate * mt.num) \div mt.den
        rest2 == 2 * ((Rate * mt.num) % mt.den)
    IN  IF rest2 > mt.den \/ (rest2 = mt.den /\ whole % 2 = 1)
        THEN whole + 1 ELSE whole

\* C7: for every max_time > 0, small ones included, free_response completes
\* and the first column of the trajectory is [x0; v0].
C7_CompletesWithInitialColumn ==
    /\ pc # "IndexError"
    /\ pc = "returned" => Column(X, 1) = x0 \o v0

\* C8 as stated: the number of time samples and of trajectory columns is
\* round(250 * max_time).
C8_RoundedSampleCount ==
    /\ pc \notin {"grid"} => Len(t) = RoundedCount(max_time)
    /\ pc \in {"expm", "loop", "returned"} => NumCols(X) = Len(t)

\* C8 as amended: the time grid has int(250 * max_time) samples, the product
\* truncated and not rounded, and the trajectory, once allocated, has as many
\* columns as the grid has samples.
C8_TruncatedSampleCount ==
    /\ pc \notin {"grid"} =>
          /\ Len(t) * max_time.den <= Rate * max_time.num
          /\ Rate * max_time.num < (Len(t) + 1) * max_time.den
    /\ pc \in {"expm", "loop", "returned"} => NumCols(X) = Len(t)

\* C8 witness: a completed call whose 250 * max_time has a fractional part of
\* at least 1/2
C8_Witness ==
    /\ pc = "returned"
    /\ 2 * ((Rate * max_time.num) % max_time.den) >= max_time.den
    /\ NumCols(X) = Len(t)
    /\ Len(t) >= 2

\* C9: when the loop finishes, column k of the trajectory is Ad^k [x0; v0]
\* for every k in 0..N-1, Ad was applied exactly N-1 times, and the columns
\* assigned are 0, 1, ..., N-1, each once and in this order; while the loop
\* runs the same holds of the columns written so far.
C9_TrajectoryIsPowers ==
    pc \in {"loop", "returned"} =>
        /\ \A k \in 0..iter : Column(X, k + 1) = PowerApply(Ad, k, x0 \o v0)
        /\ applied = iter
        /\ writeLog = [k \in 1..(iter + 1) |-> k - 1]
        /\ iter <= Len(t) - 1
        /\ pc = "returned" => iter = Len(t) - 1

\* C9 witness: a finished loop of at least two steps that moved the state
C9_Witness ==
    /\ pc = "returned"
    /\ Len(t) >= 3
    /\ applied = Len(t) - 1
    /\ Column(X, Len(t)) # Column(X, 1)
    /\ Column(X, Len(t)) # Column(X, 2)

\* --------------------------------------------------- rational matrices
\* the matrix m without row r and column c
Minor(m, r, c) ==
    [a \in 1..(Len(m) - 1) |-> [b \in 1..(Len(m) - 1) |->
        m[IF a < r THEN a ELSE a + 1][IF b < c THEN b ELSE b + 1]]]

Sign(k) == IF k % 2 = 0 THEN 1 ELSE -1

\* determinant, by expansion along the first row
RECURSIVE Det(_)
Det(m) ==
    IF Len(m) = 0 THEN 1
    ELSE SumTo([c \in 1..Len(m) |-> Sign(1 + c) * m[1][c] * Det(Minor(m, 1, c))], Len(m))

Adjugate(m) == [r \in 1..Len(m) |-> [c \in 1..Len(m) |-> Sign(r + c) * Det(Minor(m, c, r))]]

\* la.inv(m) = adj(m) / det(m); the factors inverted here have det > 0
Inv(m) == [num |-> Adjugate(m), den |-> Det(m)]

Rational(m) == [num |-> m, den |-> 1]

RMul(a, b) == [num |-> MatMul(a.num, b.num), den |-> a.den * b.den]

RTranspose(a) == [num |-> Transpose(a.num), den |-> a.den]

\* a = b as rational matrices
REqual(a, b) ==
    /\ Len(a.num) = Len(b.num)
    /\ NumCols(a.num) = NumCols(b.num)
    /\ \A r \in 1..Len(a.num) : \A c \in 1..NumCols(a.num) :
          a.num[r][c] * b.den = b.num[r][c] * a.den

\* the integer matrix a rational matrix with integer entries stands for
Integral(a) == [r \in 1..Len(a.num) |-> [c \in 1..NumCols(a.num) |-> a.num[r][c] \div a.den]]

IsIntegral(a) == \A r \in 1..Len(a.num) : \A c \in 1..NumCols(a.num) : a.num[r][c] % a.den = 0

Complexify(m) == [r \in 1..Len(m) |-> [c \in 1..Len(m[r]) |-> <<m[r][c], 0>>]]

\* ---------------------------------------------- modes_system_undamped
\* upper-triangular integer matrices with a positive diagonal
UpperFactors(n) ==
    { u \in [1..n -> [1..n -> (-1)..MaxDiag]] :
        \A r, c \in 1..n :
            /\ r = c => u[r][c] >= 1
            /\ r > c => u[r][c] = 0
            /\ r < c => u[r][c] \in {-1, 0, 1} }

\* la.cholesky(m) with the default lower=False: the upper-triangular U with a
\* positive diagonal and U.T @ U = m
Cholesky(m) == CHOOSE u \in UpperFactors(Len(m)) : MatMul(Transpose(u), u) = m

\* line 101, the argument of eigen
Whitened(linv, k) == RMul(RMul(linv, Rational(k)), RTranspose(linv))

\* The inputs: M symmetric positive-definite with an integer Cholesky factor
\* U, and K symmetric, such that the whitened matrix the code builds is
\* diagonal with entries in 0..MaxLam, the matrices la.eig is modelled on.
InitModes ==
    /\ pc = "cholesky"
    /\ \E n \in 1..MaxModesDim :
          \E u \in UpperFactors(n) :
             \E d \in [1..n -> 0..MaxLam] :
                /\ M = MatMul(Transpose(u), u)
                /\ K = MatMul(MatMul(u, DiagInt(d)), Transpose(u))
    /\ L = <<>>
    /\ Linv = <<>>
    /\ W = <<>>
    /\ lam = <<>>
    /\ P = <<>>
    /\ S = <<>>
    /\ Sinv = <<>>

IdleResponseButMK ==
    /\ x0 = <<>>
    /\ v0 = <<>>
    /\ max_time = <<>>
    /\ t = <<>>
    /\ dt = <<>>
    /\ Astate = <<>>
    /\ X = <<>>
    /\ Ad = <<>>
    /\ iter = 0
    /\ writeLog = <<>>
    /\ applied = 0

\* lines 99-100
Factor ==
    /\ pc = "cholesky"
    /\ L' = Cholesky(M)
    /\ Linv' = Inv(Cholesky(M))
    /\ pc' = "whiten"
    /\ UNCHANGED <<W, lam, P, S, Sinv>>
    /\ UNCHANGED respVars
    /\ UNCHANGED eigenVars

\* line 101: eigen(Linv @ K @ Linv.T), the whole of eigen in one step
CallEigen ==
    /\ pc = "whiten"
    /\ IsIntegral(Whitened(Linv, K))
    /\ LET a  == Complexify(Integral(Whitened(Linv, K)))
           ev == EigValues(a)
       IN  /\ W' = Whitened(Linv, K)
           /\ \E r \in Argsort(SortKeys(ev)) :
                 /\ lam' = SelectVals(ev, IndexFor(ev, r))
                 /\ P' = SelectVecs(EigVectors(a), IndexFor(ev, r))
    /\ pc' = "shapes"
    /\ UNCHANGED <<L, Linv, S, Sinv>>
    /\ UNCHANGED respVars
    /\ UNCHANGED eigenVars

\* lines 102-105
Shapes ==
    /\ pc = "shapes"
    /\ S' = RMul(Linv, Rational(P))
    /\ Sinv' = RMul(Rational(Transpose(P)), Linv)
    /\ pc' = "modes_returned"
    /\ UNCHANGED <<L, Linv, W, lam, P>>
    /\ UNCHANGED respVars
    /\ UNCHANGED eigenVars

\* ------------------------------------------------- modes: properties
\* the lower-triangular factor with a positive diagonal and l @ l.T = m
LowerCholesky(m) ==
    CHOOSE l \in { Transpose(u) : u \in UpperFactors(Len(m)) } : MatMul(l, Transpose(l)) = m

\* k - (p / q) m, times q
Pencil(k, m, p, q) ==
    [r \in 1..Len(k) |-> [c \in 1..Len(k) |-> q * k[r][c] - p * m[r][c]]]

\* C5: for symmetric positive-definite M and a real non-negative whitened
\* spectrum, a zero eigenvalue included, modes_undamped returns lam in
\* ascending order, lowest first.
C5_LamAscending ==
    pc = "modes_returned" =>
        \A a, b \in 1..Len(lam) : a < b => Re(lam[a]) <= Re(lam[b])

\* C6: Sinv is the inverse of the mode-shape matrix S, for every symmetric
\* positive-definite M: Sinv S = S Sinv = identity.
C6_SinvInvertsS ==
    pc = "modes_returned" =>
        /\ REqual(RMul(Sinv, S), Rational(Identity(Len(M))))
        /\ REqual(RMul(S, Sinv), Rational(Identity(Len(M))))

\* C10: the matrix handed to eigen is L^-1 K L^-T for the lower-triangular
\* Cholesky factor L of M (M = L L^T), so every returned eigenvalue is an
\* eigenvalue of the generalized problem K v = lambda M v.
C10_LowerFactorWhitening ==
    pc \in {"shapes", "modes_returned"} =>
        /\ REqual(W, Whitened(Inv(LowerCholesky(M)), K))
        /\ \A a \in 1..Len(lam) : Det(Pencil(K, M, Re(lam[a]), 1)) = 0

vars == <<pc, eigenVars, respVars, modesVars>>

Init == InitEigen /\ IdleResponse /\ IdleModes

Next == Solve \/ Case1a \/ Case1b \/ Case2 \/ Gather

Spec == Init /\ [][Next]_vars

InitR == InitResponse /\ IdleEigen /\ IdleModes

NextR == Grid \/ StepSize \/ StepSizeFails \/ Build \/ Discretize \/ Iterate \/ Return

SpecResponse == InitR /\ [][NextR]_vars

InitM == InitModes /\ IdleResponseButMK /\ IdleEigen

NextM == Factor \/ CallEigen \/ Shapes

SpecModes == InitM /\ [][NextM]_vars

====
